---- MODULE Spec2Model ----
(***************************************************************************)
(* Art Beyond Sight backend (src/backend/main.py): the analysis-record     *)
(* handlers over the document store, and the detection proxy.              *)
(*                                                                         *)
(* The document store is the only state shared by requests.  Nothing in    *)
(* the module ties the store to one serving process (the app object can be *)
(* served by several workers over the same remote collection), so a        *)
(* handler is modelled as a process whose steps are its store operations;  *)
(* steps of different requests interleave.                                 *)
(*                                                                         *)
(* Values.  Python None is the string "None"; a list of descriptions and a *)
(* metadata dict are opaque tokens ("[]", "[d1]", "{}", "{k:v}"); an       *)
(* image_name is a sequence of characters (the search handler matches on   *)
(* it); an ObjectId is a natural number and its str() form is the pair     *)
(* <<"oid", n>>; a datetime is a natural number of clock ticks and its     *)
(* isoformat() form is the pair <<"iso", t>>.                              *)
(***************************************************************************)
EXTENDS Integers, Sequences, FiniteSets, TLC

\* Slots of the collection, clock ticks, requests served in one run, the
\* largest limit a list request asks for, and the tokens of a detection reply.
MaxDocs == 2
MaxClock == 2
MaxReqs == 2
MaxLimit == 2
MaxToks == 4

\* Two requests in flight are enough for every interleaving of two handlers.
Procs == {1, 2}
Oids == 1..MaxDocs

VARIABLES store, now, storeUp, pc, req, loc, out, overtaken, nreq

vars == <<store, now, storeUp, pc, req, loc, out, overtaken, nreq>>

None == "None"

NameAb == <<"A", "b">>
NameB == <<"b">>

\* An empty slot of the collection.
NoDoc == [absent |-> TRUE]

\* Documents the collection may hold when the service starts (written by
\* earlier runs of the service, or by other clients of the collection).
DocAb ==
  [image_name |-> NameAb, analysis_type |-> "museum", descriptions |-> "[d1]",
   metadata |-> "{}", image_url |-> None, image_base64 |-> None,
   created_at |-> 0, updated_at |-> 0]

DocB ==
  [image_name |-> NameB, analysis_type |-> "text", descriptions |-> "[]",
   metadata |-> "{k:v}", image_url |-> "http://img", image_base64 |-> None,
   created_at |-> 0, updated_at |-> 0]

DocAbLater == [DocAb EXCEPT !.descriptions = "[]", !.created_at = 1, !.updated_at = 1]

\* The collections the record handlers start from: the first slots hold some
\* of these documents, the others are free.
InitStores ==
  {st \in [Oids -> {DocAb, DocB, NoDoc}] :
     /\ st[1] \in {DocAb, NoDoc}
     /\ \A i \in Oids : i > 1 => st[i] \in (IF i = 2 THEN {DocB, NoDoc} ELSE {NoDoc})}

Stored(st) == {i \in DOMAIN st : st[i] # NoDoc}

\* ---------------------------------------------------------------- values

\* Python truthiness of the values the handlers test with `x or y`, `if x`.
Falsy(x) == x \in {None, "", "[]", "{}"}

\* str(ObjectId)
StrOfOid(n) == <<"oid", n>>

BadId == <<"bad", 0>>

\* ObjectId(s): raises InvalidId unless s is the string form of an ObjectId.
ObjectIdValid(s) == s[1] = "oid"

ObjectIdOf(s) == s[2]

\* datetime.isoformat()
IsoFormat(t) == <<"iso", t>>

\* serialize_doc: _id becomes the string id, the datetimes become ISO strings.
serialize_doc(oid, doc) ==
  [id |-> StrOfOid(oid),
   image_name |-> doc.image_name,
   analysis_type |-> doc.analysis_type,
   descriptions |-> doc.descriptions,
   metadata |-> doc.metadata,
   image_url |-> doc.image_url,
   image_base64 |-> doc.image_base64,
   created_at |-> IsoFormat(doc.created_at),
   updated_at |-> IsoFormat(doc.updated_at)]

\* A handler's outcome: the HTTP status, the error detail, the body (a sequence
\* of records: one for a single-record reply, none for an error).
Ok(body) == [status |-> 200, detail |-> "", body |-> body]

HttpError(status, detail) == [status |-> status, detail |-> detail, body |-> <<>>]

StoreError == "ServerSelectionTimeoutError"

NoOut == [op |-> "none", req |-> [none |-> TRUE], resp |-> HttpError(0, "")]

\* ----------------------------------------------------------------- clock

\* datetime.utcnow(): the values a read may return, given the last value any
\* request saw.  The clock never goes backwards; two reads may coincide.
ClockReads == {t \in now..(now + 1) : t <= MaxClock}

\* ----------------------------------------------------------------- store

\* coll.find_one(query) on (image_name, analysis_type): the first match.
Matching(st, name, type) ==
  {i \in Stored(st) : st[i].image_name = name /\ st[i].analysis_type = type}

Min(S) == CHOOSE x \in S : \A y \in S : x <= y

\* A $set that also stamps created_at with the new updated_at.
SetFieldsStampsCreated(doc, fields) ==
  [k \in DOMAIN doc |->
     IF k \in DOMAIN fields THEN fields[k]
     ELSE IF k = "created_at" /\ "updated_at" \in DOMAIN fields THEN fields["updated_at"]
     ELSE doc[k]]

\* {"$set": fields}: the named fields are replaced, the others kept.
SetFields(doc, fields) ==
  [k \in DOMAIN doc |-> IF k \in DOMAIN fields THEN fields[k] ELSE doc[k]]

\* Requests between their clock read and their write on document i, other
\* than p: p's write lands between their read and their write.
Pending(p, i) ==
  {q \in Procs \ {p} :
     /\ pc[q] = "update_one"
     /\ ObjectIdValid(req[q].analysis_id)
     /\ ObjectIdOf(req[q].analysis_id) = i}

Init ==
  /\ store \in InitStores
  /\ now = 1
  /\ storeUp = TRUE
  /\ pc = [p \in Procs |-> "idle"]
  /\ req = [p \in Procs |-> [none |-> TRUE]]
  /\ loc = [p \in Procs |-> [none |-> TRUE]]
  /\ out = NoOut
  /\ overtaken = {}
  /\ nreq = 0

\* The store becomes unreachable, or reachable again.
StoreFail ==
  /\ storeUp
  /\ storeUp' = FALSE
  /\ UNCHANGED <<store, now, pc, req, loc, out, overtaken, nreq>>

StoreRecover ==
  /\ ~storeUp
  /\ storeUp' = TRUE
  /\ UNCHANGED <<store, now, pc, req, loc, out, overtaken, nreq>>

\* A handler returns (or raises): the request is over, its reply is out.
Finish(p, op, resp) ==
  /\ out' = [op |-> op, req |-> req[p], resp |-> resp]
  /\ pc' = [pc EXCEPT ![p] = "idle"]
  /\ req' = [req EXCEPT ![p] = [none |-> TRUE]]
  /\ loc' = [loc EXCEPT ![p] = [none |-> TRUE]]

\* ---------------------------------------------------------------- update

UpdateIds == {StrOfOid(i) : i \in Oids} \cup {BadId}

UpdateReqs ==
  {r \in [analysis_id : UpdateIds,
           descriptions : {None, "[d2]"},
           metadata : {None, "{k:w}"}] :
     (r.descriptions = None) # (r.metadata = None)}

\* An update_doc that always carries descriptions (`descriptions or []`).
UpdateDocAlwaysDescriptions(r, ts) ==
  LET d == [k \in {"updated_at", "descriptions"} |->
              IF k = "updated_at" THEN ts
              ELSE IF r.descriptions = None THEN "[]" ELSE r.descriptions]
  IN IF r.metadata # None
     THEN [k \in DOMAIN d \cup {"metadata"} |->
             IF k = "metadata" THEN r.metadata ELSE d[k]]
     ELSE d

\* update_doc: updated_at, and only the fields of the request that are present.
update_doc(r, ts) ==
  LET base == [updated_at |-> ts]
      d == IF r.descriptions # None
           THEN [k \in {"updated_at", "descriptions"} |->
                   IF k = "updated_at" THEN ts ELSE r.descriptions]
           ELSE base
  IN IF r.metadata # None
     THEN [k \in DOMAIN d \cup {"metadata"} |->
             IF k = "metadata" THEN r.metadata ELSE d[k]]
     ELSE d

\* update_analysis, lines 240-246: the clock is read and update_doc built.
update_analysis_begin(p) ==
  /\ pc[p] = "idle"
  /\ nreq < MaxReqs
  /\ nreq' = nreq + 1
  /\ \E r \in UpdateReqs, t \in ClockReads :
       /\ req' = [req EXCEPT ![p] = r]
       /\ loc' = [loc EXCEPT ![p] = [update_doc |-> update_doc(r, t)]]
       /\ now' = t
  /\ pc' = [pc EXCEPT ![p] = "update_one"]
  /\ overtaken' = overtaken \ {p}
  /\ UNCHANGED <<store, storeUp, out>>

\* update_analysis, lines 248-254: ObjectId(analysis_id), update_one, and the
\* 404 of matched_count = 0, which the handler's own `except Exception`
\* catches and raises again as a 500.
update_analysis_update_one(p) ==
  /\ pc[p] = "update_one"
  /\ LET id == req[p].analysis_id
         i == ObjectIdOf(id)
     IN IF ~ObjectIdValid(id)
        THEN /\ Finish(p, "update", HttpError(500, "InvalidId"))
             /\ UNCHANGED <<store, overtaken>>
        ELSE IF ~storeUp
        THEN /\ Finish(p, "update", HttpError(500, StoreError))
             /\ UNCHANGED <<store, overtaken>>
        ELSE IF i \notin Stored(store)
        THEN /\ Finish(p, "update", HttpError(500, "404: Analysis not found"))
             /\ UNCHANGED <<store, overtaken>>
        ELSE /\ store' = [store EXCEPT ![i] = SetFields(@, loc[p].update_doc)]
             /\ overtaken' = overtaken \cup Pending(p, i)
             /\ pc' = [pc EXCEPT ![p] = "find_one"]
             /\ UNCHANGED <<req, loc, out>>
  /\ UNCHANGED <<now, storeUp, nreq>>

\* update_analysis, lines 256-257: the record is read back and serialized.
update_analysis_find_one(p) ==
  /\ pc[p] = "find_one"
  /\ LET i == ObjectIdOf(req[p].analysis_id)
     IN IF ~storeUp
        THEN Finish(p, "update", HttpError(500, StoreError))
        ELSE Finish(p, "update", Ok(<<serialize_doc(i, store[i])>>))
  /\ UNCHANGED <<store, now, storeUp, overtaken, nreq>>

\* ------------------------------------------------------------- get by id

\* get_analysis_by_id: the 404 of an absent record is raised inside the try
\* and caught by `except Exception`, which raises a 500.
get_analysis_by_id ==
  /\ nreq < MaxReqs
  /\ nreq' = nreq + 1
  /\ \E id \in UpdateIds :
       /\ LET resp ==
                IF ~ObjectIdValid(id) THEN HttpError(500, "InvalidId")
                ELSE IF ~storeUp THEN HttpError(500, StoreError)
                ELSE IF ObjectIdOf(id) \notin Stored(store)
                THEN HttpError(500, "404: Analysis not found")
                ELSE Ok(<<serialize_doc(ObjectIdOf(id), store[ObjectIdOf(id)])>>)
          IN out' = [op |-> "get", req |-> [analysis_id |-> id], resp |-> resp]
  /\ UNCHANGED <<store, now, storeUp, pc, req, loc, overtaken>>

\* ---------------------------------------------------------------- create

\* ImageAnalysisRequest bodies.
AnalysisReqs ==
  [image_name : {NameAb},
   analysis_type : {"museum"},
   descriptions : {"[d1]", "[d2]"},
   metadata : {None, "{k:v}"},
   image_url : {None},
   image_base64 : {None}]

\* A free slot of the collection; with none left insert_one raises.
FreeSlots(st) == Oids \ Stored(st)

\* Whether the name `datetime` is bound where create_image_analysis first
\* uses it (line 151).  The `from datetime import datetime` of line 167 makes
\* the name local to the whole function, and that line runs only in the
\* except branch: at line 151 the local is unbound and the use raises
\* UnboundLocalError, outside any try.
CreateDatetimeBound == FALSE

\* The document of lines 144-153, with the two clock reads t1, t2.
CreateDoc(r, t1, t2) ==
  [image_name |-> r.image_name,
   analysis_type |-> r.analysis_type,
   descriptions |-> IF Falsy(r.descriptions) THEN "[]" ELSE r.descriptions,
   metadata |-> IF Falsy(r.metadata) THEN "{}" ELSE r.metadata,
   image_url |-> r.image_url,
   image_base64 |-> r.image_base64,
   created_at |-> t1,
   updated_at |-> t2]

\* The response of lines 171-179.
CreateResponse(id, doc) ==
  [id |-> id,
   image_name |-> doc.image_name,
   analysis_type |-> doc.analysis_type,
   descriptions |-> doc.descriptions,
   metadata |-> doc.metadata,
   created_at |-> IsoFormat(doc.created_at),
   updated_at |-> IsoFormat(doc.updated_at)]

\* create_image_analysis.  The handler has no step that waits on the store
\* before it raises, so it is one step.
create_image_analysis ==
  /\ nreq < MaxReqs
  /\ nreq' = nreq + 1
  /\ \E r \in AnalysisReqs :
       IF ~CreateDatetimeBound
       THEN /\ out' = [op |-> "create", req |-> r,
                       resp |-> HttpError(500, "UnboundLocalError")]
            /\ UNCHANGED <<store, now, overtaken>>
       ELSE \E t1 \in ClockReads :
              \E t2 \in {t \in t1..(t1 + 1) : t <= MaxClock} :
                LET doc == CreateDoc(r, t1, t2)
                IN /\ now' = t2
                   /\ overtaken' = overtaken
                   /\ IF storeUp /\ FreeSlots(store) # {}
                      THEN LET i == Min(FreeSlots(store))
                           IN /\ store' = [store EXCEPT ![i] = doc]
                              /\ out' = [op |-> "create", req |-> r,
                                         resp |-> Ok(<<CreateResponse(StrOfOid(i), doc)>>)]
                      ELSE /\ store' = store
                           /\ out' = [op |-> "create", req |-> r,
                                      resp |-> Ok(<<CreateResponse(<<"mock", t2>>, doc)>>)]
  /\ UNCHANGED <<storeUp, pc, req, loc>>

\* ---------------------------------------------------------------- upsert

\* Whether `datetime.timezone` (line 279) resolves.  `datetime` is the class
\* imported at line 2, which has no attribute `timezone`: the lookup raises
\* AttributeError, inside the handler's try.
UpsertTimezoneResolves == FALSE

\* The document of lines 272-280.
UpsertDoc(r, ts) ==
  [image_name |-> r.image_name,
   analysis_type |-> r.analysis_type,
   descriptions |-> r.descriptions,
   metadata |-> IF Falsy(r.metadata) THEN "{}" ELSE r.metadata,
   image_url |-> r.image_url,
   image_base64 |-> r.image_base64,
   updated_at |-> ts]

\* The inserted document of lines 289-290: doc with created_at.
WithCreatedAt(doc, t) ==
  [k \in DOMAIN doc \cup {"created_at"} |-> IF k = "created_at" THEN t ELSE doc[k]]

\* create_or_update_image_analysis, lines 268-270: find_one on the pair.
create_or_update_find_one(p) ==
  /\ pc[p] = "idle"
  /\ nreq < MaxReqs
  /\ nreq' = nreq + 1
  /\ \E r \in AnalysisReqs :
       IF ~storeUp
       THEN /\ out' = [op |-> "upsert", req |-> r, resp |-> HttpError(500, StoreError)]
            /\ UNCHANGED <<pc, req, loc>>
       ELSE /\ req' = [req EXCEPT ![p] = r]
            /\ loc' = [loc EXCEPT ![p] =
                 [existing |-> Matching(store, r.image_name, r.analysis_type) # {}]]
            /\ pc' = [pc EXCEPT ![p] = "upsert_save"]
            /\ out' = out
  /\ overtaken' = overtaken \ {p}
  /\ UNCHANGED <<store, now, storeUp>>

\* create_or_update_image_analysis, lines 272-294: the document is built, and
\* the record updated or inserted and read back.
create_or_update_save(p) ==
  /\ pc[p] = "upsert_save"
  /\ LET r == req[p]
         m == Matching(store, r.image_name, r.analysis_type)
     IN IF ~UpsertTimezoneResolves
        THEN /\ Finish(p, "upsert", HttpError(500, "AttributeError"))
             /\ UNCHANGED <<store, now, overtaken>>
        ELSE \E ts \in ClockReads :
          IF ~storeUp
          THEN /\ Finish(p, "upsert", HttpError(500, StoreError))
               /\ now' = ts
               /\ UNCHANGED <<store, overtaken>>
          ELSE IF loc[p].existing
          THEN LET i == Min(m)
               IN /\ m # {}
                  /\ store' = [store EXCEPT ![i] = SetFields(@, UpsertDoc(r, ts))]
                  /\ overtaken' = overtaken \cup Pending(p, i)
                  /\ now' = ts
                  /\ Finish(p, "upsert", Ok(<<serialize_doc(i, store'[i])>>))
          ELSE \E tc \in {t \in ts..(ts + 1) : t <= MaxClock} :
               /\ now' = tc
               /\ overtaken' = overtaken
               /\ IF FreeSlots(store) = {}
                  THEN /\ Finish(p, "upsert", HttpError(500, StoreError))
                       /\ store' = store
                  ELSE LET i == Min(FreeSlots(store))
                       IN /\ store' = [store EXCEPT ![i] = WithCreatedAt(UpsertDoc(r, ts), tc)]
                          /\ Finish(p, "upsert", Ok(<<serialize_doc(i, store'[i])>>))
  /\ UNCHANGED <<storeUp, nreq>>

\* ------------------------------------------------------------------ list

ListReqs == [analysis_type : {None, "museum", "text"}, limit : 0..MaxLimit]

\* The orders in which a cursor sorted by created_at, newest first, may
\* yield the documents ids: documents of equal created_at come in any order.
SortNewestFirst(st, ids) ==
  {s \in [1..Cardinality(ids) -> ids] :
     /\ \A a, b \in DOMAIN s : a # b => s[a] # s[b]
     /\ \A a, b \in DOMAIN s : a < b => st[s[a]].created_at >= st[s[b]].created_at}

\* cursor.limit(n): the first n; the driver takes a limit of 0 as no limit.
CursorLimit(s, n) ==
  IF n = 0 \/ n >= Len(s) THEN s ELSE SubSeq(s, 1, n)

\* The documents with the ids of s, serialized.
Serialized(st, s) == [k \in DOMAIN s |-> serialize_doc(s[k], st[s[k]])]

\* The query of lines 191-193: the filter applies when analysis_type is truthy.
ListFilter(st, type) ==
  {i \in Stored(st) : Falsy(type) \/ st[i].analysis_type = type}

\* get_all_analyses
get_all_analyses ==
  /\ nreq < MaxReqs
  /\ nreq' = nreq + 1
  /\ \E r \in ListReqs :
       IF ~storeUp
       THEN out' = [op |-> "list", req |-> r, resp |-> HttpError(500, StoreError)]
       ELSE \E s \in SortNewestFirst(store, ListFilter(store, r.analysis_type)) :
              out' = [op |-> "list", req |-> r,
                      resp |-> Ok(Serialized(store, CursorLimit(s, r.limit)))]
  /\ UNCHANGED <<store, now, storeUp, pc, req, loc, overtaken>>

\* ---------------------------------------------------------------- search

\* The patterns searched for; "(" alone is not a regular expression.
Patterns == {<<"a">>, <<"b">>, <<"a", "b">>, <<"c">>, <<"(">>}

Lower(c) == IF c = "A" THEN "a" ELSE IF c = "B" THEN "b" ELSE c

\* Whether the store compiles the pattern; if not the query raises.
RegexValid(pat) == \A k \in DOMAIN pat : pat[k] # "("

\* {"$regex": pat, "$options": "i"} for a pattern of plain characters: the
\* pattern occurs in the name, letter case ignored.
RegexSearchI(pat, name) ==
  \E k \in 0..(Len(name) - Len(pat)) :
    \A j \in 1..Len(pat) : Lower(name[k + j]) = Lower(pat[j])

SearchFilter(st, pat) == {i \in Stored(st) : RegexSearchI(pat, st[i].image_name)}

\* A search that reports the failure as the list handler does.
SearchOnErrorRaises == HttpError(500, "Failed to search analyses")

\* What search_analyses_by_name returns when the store or the query raises.
SearchOnError == Ok(<<>>)

\* search_analyses_by_name
search_analyses_by_name ==
  /\ nreq < MaxReqs
  /\ nreq' = nreq + 1
  /\ \E pat \in Patterns :
       IF ~storeUp \/ ~RegexValid(pat)
       THEN out' = [op |-> "search", req |-> [image_name |-> pat], resp |-> SearchOnError]
       ELSE \E s \in SortNewestFirst(store, SearchFilter(store, pat)) :
              out' = [op |-> "search", req |-> [image_name |-> pat],
                      resp |-> Ok(Serialized(store, s))]
  /\ UNCHANGED <<store, now, storeUp, pc, req, loc, overtaken>>

\* ---------------------------------------------------------------- detect

\* The text the external API returns, as a sequence of tokens: a brace, a run
\* of free text, or one "key": value member of a JSON object.
Tok(tok, k, t, sv, n) == [tok |-> tok, k |-> k, t |-> t, s |-> sv, n |-> n]

LBrace == Tok("{", "", "", "", 0)
RBrace == Tok("}", "", "", "", 0)
Text == Tok("text", "", "", "", 0)

Members ==
  { Tok("member", "title", "str", "Mona Lisa", 0),
    Tok("member", "title", "null", "", 0),
    Tok("member", "description", "str", "a portrait", 0),
    Tok("member", "description", "null", "", 0),
    Tok("member", "confidence", "num", "", 90),
    Tok("member", "confidence", "str", "high", 0) }

Toks == {LBrace, RBrace, Text} \cup Members

SeqsUpTo(S, n) == UNION {[1..k -> S] : k \in 0..n}

\* The JSON value under "result"/"content": a string (its tokens), an object
\* (its members) or null.
Contents ==
  {[t |-> "str", toks |-> q] : q \in SeqsUpTo(Toks, MaxToks)}
    \cup {[t |-> "object", toks |-> q] : q \in SeqsUpTo(Members, 2)}
    \cup {[t |-> "null", toks |-> <<>>]}

\* What the environment and the external API do to one request.
DetectInputs ==
  {[stage |-> st, key |-> "none", content |-> [t |-> "null", toks |-> <<>>]] :
     st \in {"no_key", "timeout", "conn_error", "http_error", "not_json", "json_list"}}
    \cup {[stage |-> "json_object", key |-> k, content |-> c] :
            k \in {"result", "content"}, c \in Contents}
    \cup {[stage |-> "json_object", key |-> "none", content |-> [t |-> "null", toks |-> <<>>]]}

\* re.search(r'\{[^}]+\}', content): the leftmost "{" that is followed by one
\* or more tokens other than "}" and then a "}"; <<0, 0>> when there is none.
RegexMatch(q) ==
  LET starts == {a \in DOMAIN q :
                   /\ q[a] = LBrace
                   /\ \E b \in (a + 2)..Len(q) :
                        /\ q[b] = RBrace
                        /\ \A c \in (a + 1)..(b - 1) : q[c] # RBrace}
  IN IF starts = {} THEN <<0, 0>>
     ELSE LET a == Min(starts)
          IN <<a, Min({b \in (a + 2)..Len(q) : q[b] = RBrace})>>

\* json.loads of the matched text: it parses when what stands between the
\* braces are members only.
JsonLoadsOk(q, m) == \A c \in (m[1] + 1)..(m[2] - 1) : q[c].tok = "member"

JsonLoads(q, m) == SubSeq(q, m[1] + 1, m[2] - 1)

\* dict.get(key, default) on an object given by its members (the last member
\* of a key stands).
DictGet(members, key, default) ==
  LET at == {k \in DOMAIN members : members[k].k = key}
  IN IF at = {} THEN default ELSE members[CHOOSE k \in at : \A j \in at : j <= k]

StrVal(sv) == Tok("value", "", "str", sv, 0)
NumVal(n) == Tok("value", "", "num", "", n)

DetectResponse(title, description, confidence) ==
  Ok(<<[title |-> title, description |-> description, confidence |-> confidence]>>)

\* A detection handler that reports the failure as the record handlers do.
DetectOnErrorRaises == HttpError(500, "Overshoot detection failed")

\* The reply of the outer `except Exception` (lines 382-389).
DetectOnError == DetectResponse("", "Detection unavailable", 0)

\* The reply of the inner except (lines 373-380).
DetectOnParseError == DetectResponse("", "str(result)", 0)

\* DetectArtworkResponse(title=..., description=..., confidence=...): the model
\* validates str, str, float; a value of another type raises.
DetectValidates(data) ==
  /\ DictGet(data, "title", StrVal("")).t = "str"
  /\ DictGet(data, "description", StrVal("")).t = "str"
  /\ DictGet(data, "confidence", NumVal(50)).t = "num"

\* Lines 353-380: the reply's content is parsed into the response.
DetectParse(in) ==
  LET content == IF in.key = "none" THEN [t |-> "str", toks |-> <<LBrace, RBrace>>]
                 ELSE in.content
      m == RegexMatch(content.toks)
      plain == <<Tok("member", "title", "str", "", 0),
                 Tok("member", "description", "str", "content", 0),
                 Tok("member", "confidence", "num", "", 50)>>
  IN IF in.stage = "json_list" THEN DetectOnParseError
     ELSE IF content.t = "null" THEN DetectOnParseError
     ELSE IF content.t = "str" /\ m # <<0, 0>> /\ ~JsonLoadsOk(content.toks, m)
     THEN DetectOnParseError
     ELSE LET data == IF content.t = "object" THEN content.toks
                      ELSE IF m # <<0, 0>> THEN JsonLoads(content.toks, m)
                      ELSE plain
          IN IF ~DetectValidates(data) THEN DetectOnParseError
             ELSE DetectResponse(DictGet(data, "title", StrVal("")).s,
                                 DictGet(data, "description", StrVal("")).s,
                                 DictGet(data, "confidence", NumVal(50)).n)

\* detect_artwork
detect_artwork(in) ==
  IF in.stage \in {"no_key", "timeout", "conn_error", "http_error", "not_json"}
  THEN DetectOnError
  ELSE DetectParse(in)

\* The handler runs on the request it was given.
Detect(p) ==
  /\ pc[p] = "detect"
  /\ Finish(p, "detect", detect_artwork(req[p]))
  /\ UNCHANGED <<store, now, storeUp, overtaken, nreq>>

\* ------------------------------------------------------- specifications

Next ==
  \/ StoreFail
  \/ StoreRecover
  \/ create_image_analysis
  \/ \E p \in Procs : create_or_update_find_one(p)
  \/ \E p \in Procs : create_or_update_save(p)
  \/ \E p \in Procs : update_analysis_begin(p)
  \/ \E p \in Procs : update_analysis_update_one(p)
  \/ \E p \in Procs : update_analysis_find_one(p)
  \/ get_analysis_by_id

\* The record handlers, interleaved at their store operations.
Spec == Init /\ [][Next]_vars

\* The collections the query handlers are run on: any documents in any slots.
InitQuery ==
  /\ store \in [Oids -> {DocAb, DocAbLater, DocB, NoDoc}]
  /\ now = 1
  /\ storeUp = TRUE
  /\ pc = [p \in Procs |-> "idle"]
  /\ req = [p \in Procs |-> [none |-> TRUE]]
  /\ loc = [p \in Procs |-> [none |-> TRUE]]
  /\ out = NoOut
  /\ overtaken = {}
  /\ nreq = 0

NextQuery ==
  \/ StoreFail
  \/ StoreRecover
  \/ get_all_analyses
  \/ search_analyses_by_name

\* The query handlers: each is one operation on the store.
QuerySpec == InitQuery /\ [][NextQuery]_vars

\* A detection request, with what the environment will do to it, is pending.
InitDetect ==
  /\ store = [i \in Oids |-> NoDoc]
  /\ now = 1
  /\ storeUp = TRUE
  /\ pc = [p \in Procs |-> IF p = 1 THEN "detect" ELSE "idle"]
  /\ \E in \in DetectInputs :
       req = [p \in Procs |-> IF p = 1 THEN in ELSE [none |-> TRUE]]
  /\ loc = [p \in Procs |-> [none |-> TRUE]]
  /\ out = NoOut
  /\ overtaken = {}
  /\ nreq = 0

NextDetect == \E p \in Procs : Detect(p)

\* The detection proxy: it shares no state with the record handlers.
DetectSpec == InitDetect /\ [][NextDetect]_vars

\* ------------------------------------------------------------ properties

\* The steps of the handlers, as seen in a pair of states.
CreateStep == nreq' = nreq + 1 /\ pc' = pc /\ out'.op = "create"
GetStep == nreq' = nreq + 1 /\ pc' = pc /\ out'.op = "get"
SearchStep == nreq' = nreq + 1 /\ pc' = pc /\ out'.op = "search"
UpdateWrites(p) == pc[p] = "update_one" /\ pc'[p] = "find_one"
UpdateEndsAtWrite(p) == pc[p] = "update_one" /\ pc'[p] = "idle"
UpsertSaves(p) == pc[p] = "upsert_save" /\ pc'[p] = "idle"

PairCount(st, r) == Cardinality(Matching(st, r.image_name, r.analysis_type))

UniquePairs(st) ==
  \A i, j \in Stored(st) :
    (st[i].image_name = st[j].image_name /\ st[i].analysis_type = st[j].analysis_type)
      => i = j

IsoTime(v) == v[2]

\* C1: every create_image_analysis call ends in a success response that echoes the request,
\* and whose id is the id of the inserted record or, with the store
\* unreachable, a mock id; it never ends in an error response.
C1_CreateNeverFails ==
  out.op = "create" =>
    /\ out.resp.status = 200
    /\ Len(out.resp.body) = 1
    /\ out.resp.body[1].image_name = out.req.image_name
    /\ out.resp.body[1].analysis_type = out.req.analysis_type
    /\ out.resp.body[1].id[1] \in {"oid", "mock"}
    /\ out.resp.body[1].id[1] = "oid" => out.resp.body[1].id[2] \in Stored(store)

\* C2: a create_image_analysis-or-update call whose store operations succeed, made when at
\* most one record holds its (image_name, analysis_type), returns a success
\* response and leaves exactly one record under the pair, with the call's
\* descriptions.  (Two calls in sequence from a store without the pair: the
\* first inserts the record, the second replaces its descriptions.)
C2_UpsertTwiceOneRecord ==
  [][\A p \in Procs :
       (UpsertSaves(p) /\ storeUp /\ PairCount(store, req[p]) <= 1) =>
         /\ out'.resp.status = 200
         /\ PairCount(store', req[p]) = 1
         /\ \A i \in Matching(store', req[p].image_name, req[p].analysis_type) :
              store'[i].descriptions = req[p].descriptions]_vars

\* C3: with the store reachable, Get-by-id and Update on a well-formed id
\* that matches no record answer 404, and a 500 is answered only on a store
\* failure or a malformed id.
C3_NotFoundIs404 ==
  [][/\ GetStep =>
          LET id == out'.req.analysis_id
          IN /\ (storeUp /\ ObjectIdValid(id) /\ ObjectIdOf(id) \notin Stored(store))
                  => out'.resp.status = 404
             /\ out'.resp.status = 500 => (~storeUp \/ ~ObjectIdValid(id))
     /\ \A p \in Procs : UpdateEndsAtWrite(p) =>
          LET id == req[p].analysis_id
          IN /\ (storeUp /\ ObjectIdValid(id) /\ ObjectIdOf(id) \notin Stored(store))
                  => out'.resp.status = 404
             /\ out'.resp.status = 500 => (~storeUp \/ ~ObjectIdValid(id))]_vars

\* The frame of an Update that supplies only metadata, writing record i.
MetadataOnly(p) == req[p].descriptions = None /\ req[p].metadata # None

C4Frame(p, i) ==
  /\ store'[i].descriptions = store[i].descriptions
  /\ store'[i].image_name = store[i].image_name
  /\ store'[i].analysis_type = store[i].analysis_type
  /\ store'[i].created_at = store[i].created_at
  /\ store'[i].metadata = req[p].metadata
  /\ \A j \in Oids \ {i} : store'[j] = store[j]

\* C4 (as amended): an Update that supplies only metadata leaves the record's
\* descriptions, image_name, analysis_type and created_at unchanged, replaces
\* metadata, modifies no other record, and sets updated_at to the clock value
\* the request read; that value is greater than or equal to the previous
\* updated_at unless another Update of the record wrote after the read.
C4_MetadataOnlyUpdate ==
  [][\A p \in Procs :
       (UpdateWrites(p) /\ MetadataOnly(p)) =>
         LET i == ObjectIdOf(req[p].analysis_id)
         IN /\ C4Frame(p, i)
            /\ store'[i].updated_at = loc[p].update_doc.updated_at
            /\ p \notin overtaken => store'[i].updated_at >= store[i].updated_at]_vars

\* C4 (as stated): the same, with updated_at strictly greater than before.
C4_StrictlyGreater ==
  [][\A p \in Procs :
       (UpdateWrites(p) /\ MetadataOnly(p)) =>
         LET i == ObjectIdOf(req[p].analysis_id)
         IN /\ C4Frame(p, i)
            /\ store'[i].updated_at > store[i].updated_at]_vars

\* A metadata-only Update of a stored record has returned the merged record.
C4_Witness ==
  /\ out.op = "update"
  /\ out.resp.status = 200
  /\ out.req.descriptions = None
  /\ out.req.metadata # None
  /\ out.resp.body[1].metadata = out.req.metadata
  /\ Cardinality(Stored(store)) = 2

\* The failure modes of a detection request: no API key, no reply, a
\* non-success status, a reply that is not JSON or not a JSON object, a
\* content that is neither text nor an object, a JSON object in the text that
\* does not parse, or a field of the parsed object of the wrong type.
DetectData(in) ==
  IF in.content.t = "object" THEN in.content.toks
  ELSE LET m == RegexMatch(in.content.toks)
       IN IF m = <<0, 0>> THEN <<>> ELSE SubSeq(in.content.toks, m[1] + 1, m[2] - 1)

WrongType(data) ==
  \E k \in DOMAIN data :
    /\ \A j \in DOMAIN data : data[j].k = data[k].k => j <= k
    /\ \/ data[k].k \in {"title", "description"} /\ data[k].t # "str"
       \/ data[k].k = "confidence" /\ data[k].t # "num"

DetectFailure(in) ==
  \/ in.stage # "json_object"
  \/ /\ in.key # "none"
     /\ \/ in.content.t = "null"
        \/ \E k \in DOMAIN DetectData(in) : DetectData(in)[k].tok # "member"
        \/ WrongType(DetectData(in))

\* C5: Detect always returns a well-formed {title, description, confidence}
\* response, and in every failure mode the title is empty and the confidence 0.
C5_DetectNeverFails ==
  out.op = "detect" =>
    /\ out.resp.status = 200
    /\ Len(out.resp.body) = 1
    /\ DOMAIN out.resp.body[1] = {"title", "description", "confidence"}
    /\ DetectFailure(out.req) =>
         (out.resp.body[1].title = "" /\ out.resp.body[1].confidence = 0)

\* A reply whose text holds a JSON object with a field of the wrong type has
\* been answered.
C5_Witness ==
  /\ out.op = "detect"
  /\ out.req.stage = "json_object"
  /\ out.req.content.t = "str"
  /\ WrongType(DetectData(out.req))
  /\ out.resp.body[1].confidence = 0

\* C6: get_all_analyses with a reachable store returns at most limit records, all of the
\* requested analysis_type, newest created_at first; with limit 0, none.
C6_ListAtMostLimit ==
  (out.op = "list" /\ out.resp.status = 200) =>
    /\ Len(out.resp.body) <= out.req.limit
    /\ \A k \in DOMAIN out.resp.body :
         out.req.analysis_type # None =>
           out.resp.body[k].analysis_type = out.req.analysis_type
    /\ \A a, b \in DOMAIN out.resp.body :
         a < b => IsoTime(out.resp.body[a].created_at) >= IsoTime(out.resp.body[b].created_at)

\* C7: every create_image_analysis call returns a record whose created_at and updated_at
\* are equal.
C7_CreatedEqualsUpdated ==
  out.op = "create" =>
    /\ Len(out.resp.body) = 1
    /\ out.resp.body[1].created_at = out.resp.body[1].updated_at

\* C8: search_analyses_by_name never ends in an error and never changes the store; with the
\* store unavailable or the query raising it returns an empty list, and
\* otherwise exactly the records whose image_name matches (none when none
\* matches), newest created_at first.
C8_SearchLenient ==
  [][SearchStep =>
       LET body == out'.resp.body
           pat == out'.req.image_name
           hits == {i \in Stored(store) : RegexSearchI(pat, store[i].image_name)}
       IN /\ out'.resp.status = 200
          /\ store' = store
          /\ IF ~storeUp \/ ~RegexValid(pat)
             THEN body = <<>>
             ELSE /\ Len(body) = Cardinality(hits)
                  /\ {body[k].id : k \in DOMAIN body} = {StrOfOid(i) : i \in hits}
                  /\ \A k \in DOMAIN body :
                       body[k] = serialize_doc(body[k].id[2], store[body[k].id[2]])
                  /\ \A a, b \in DOMAIN body :
                       a < b => IsoTime(body[a].created_at) >= IsoTime(body[b].created_at)]_vars

\* A search has returned two matching records.
C8_Witness ==
  /\ out.op = "search"
  /\ out.resp.status = 200
  /\ Len(out.resp.body) = 2
  /\ out.resp.body[1].created_at # out.resp.body[2].created_at

\* C9: create_image_analysis-or-update calls, however their store operations interleave,
\* never leave two records under one (image_name, analysis_type), and once a
\* call whose store operations succeed has completed a record under its pair
\* carries the fields it wrote.
C9_UpsertKeepsPairUnique ==
  [][/\ UniquePairs(store) => UniquePairs(store')
     /\ \A p \in Procs :
          (UpsertSaves(p) /\ storeUp) =>
            \E i \in Matching(store', req[p].image_name, req[p].analysis_type) :
              /\ store'[i].descriptions = req[p].descriptions
              /\ store'[i].metadata = (IF Falsy(req[p].metadata) THEN "{}" ELSE req[p].metadata)]_vars

\* The request p that writes record i in this step.
Writer(p, i) == UpdateWrites(p) /\ ObjectIdOf(req[p].analysis_id) = i

\* C10 (as amended): a stored record stays stored, its created_at never
\* changes, and its updated_at decreases only in the write of a request that
\* read the clock before another mutation of the record was written.
C10_TimestampsUnlessOvertaken ==
  [][\A i \in Stored(store) :
       /\ i \in Stored(store')
       /\ store'[i].created_at = store[i].created_at
       /\ store'[i].updated_at < store[i].updated_at =>
            \E p \in overtaken : Writer(p, i)]_vars

\* C10 (as stated): created_at never changes and updated_at never decreases,
\* whatever the interleaving.
C10_UpdatedAtNeverDecreases ==
  [][\A i \in Stored(store) :
       /\ i \in Stored(store')
       /\ store'[i].created_at = store[i].created_at
       /\ store'[i].updated_at >= store[i].updated_at]_vars

\* An Update that another Update of the same record overtook has been accepted.
C10_Witness ==
  \E p \in overtaken :
    /\ pc[p] = "find_one"
    /\ store[ObjectIdOf(req[p].analysis_id)].updated_at = loc[p].update_doc.updated_at
    /\ store[ObjectIdOf(req[p].analysis_id)].updated_at < now
====
